---- MODULE Spec2Model ----
(***************************************************************************)
(* Model of nodepool/stats.py: get_client and the StatsReporter mixin      *)
(* (recordLaunchStats, updateNodeStats).                                   *)
(*                                                                         *)
(* A Python str is a sequence of one-character strings, so that            *)
(* str.replace and the '%s' formatting act on characters.  An optional     *)
(* value is <<>> (None) or <<x>> (the value x).  A Python dict is the      *)
(* sequence of its [k, v] items in insertion order, and the set             *)
(* VALID_STATES is visited in one fixed order; no property below depends   *)
(* on the order of the gauge calls.                                        *)
(***************************************************************************)
EXTENDS Integers, Sequences, FiniteSets, TLC

VARIABLES env, launch, nodes, provider, _statsd, op, calls, states,
          iterOpened, iterPos, raised

vars == <<env, launch, nodes, provider, _statsd, op, calls, states,
          iterOpened, iterPos, raised>>

(***************************************************************************)
(* Bounds of the model.                                                    *)
(***************************************************************************)
MaxNodes == 2
MaxPools == 2
MaxReqLen == 2

(***************************************************************************)
(* Optional values and Python truthiness.                                  *)
(***************************************************************************)
None == <<>>

Some(x) == <<x>>

\* bool(o) for an optional str: None and '' are both false.
TruthyStr(o) == o # None /\ o[1] # <<>>

\* bool(o) for an optional int: None and 0 are both false.
TruthyInt(o) == o # None /\ o[1] # 0

(***************************************************************************)
(* The literal parts of the format strings, character by character.        *)
(***************************************************************************)
DOT == <<".">>

FMT_LAUNCH_PROVIDER == <<"n","o","d","e","p","o","o","l",".","l","a","u","n","c","h",".","p","r","o","v","i","d","e","r",".">>

FMT_LAUNCH_IMAGE == <<"n","o","d","e","p","o","o","l",".","l","a","u","n","c","h",".","i","m","a","g","e",".">>

FMT_LAUNCH == <<"n","o","d","e","p","o","o","l",".","l","a","u","n","c","h",".">>

FMT_LAUNCH_REQUESTOR == <<"n","o","d","e","p","o","o","l",".","l","a","u","n","c","h",".","r","e","q","u","e","s","t","o","r",".">>

FMT_NODES == <<"n","o","d","e","p","o","o","l",".","n","o","d","e","s",".">>

FMT_LABEL == <<"n","o","d","e","p","o","o","l",".","l","a","b","e","l",".">>

FMT_PROVIDER == <<"n","o","d","e","p","o","o","l",".","p","r","o","v","i","d","e","r",".">>

FMT_DOT_NODES == <<".","n","o","d","e","s",".">>

FMT_DOT_MAX_SERVERS == <<".","m","a","x","_","s","e","r","v","e","r","s">>

(***************************************************************************)
(* get_client: the statsd client built from the environment, or None.      *)
(* os.getenv(name, None) is an optional str; an empty value is false.      *)
(* The client is the record of the keyword arguments StatsClient got.      *)
(***************************************************************************)
get_client_both(e) ==
    IF TruthyStr(e.host) /\ TruthyStr(e.port)
    THEN Some([host |-> e.host, port |-> e.port])
    ELSE None

get_client(e) ==
    LET host == IF TruthyStr(e.host) THEN e.host ELSE None
        port == IF TruthyStr(e.port) THEN e.port ELSE None
    IN  IF host # None \/ port # None
        THEN Some([host |-> host, port |-> port])
        ELSE None

\* "if not self._statsd: return"
NoSinkNever(sink) == FALSE

NoSink(sink) == sink = None

(***************************************************************************)
(* recordLaunchStats                                                       *)
(***************************************************************************)
RECURSIVE Replace(_, _, _)
\* str.replace(old, new) for one-character old and new
Replace(s, old, new) ==
    IF s = <<>> THEN <<>>
    ELSE <<IF Head(s) = old THEN new ELSE Head(s)>> \o Replace(Tail(s), old, new)

SanitizeDotOnly(requestor) == Replace(requestor, ".", "_")

\* requestor.replace('.', '_') then .replace(':', '_')
Sanitize(requestor) == Replace(Replace(requestor, ".", "_"), ":", "_")

LaunchKeysAzLast(subkey, image_name, provider_name, node_az, requestor) ==
    <<FMT_LAUNCH_PROVIDER \o provider_name \o DOT \o subkey,
      FMT_LAUNCH_IMAGE \o image_name \o DOT \o subkey,
      FMT_LAUNCH \o subkey>>
    \o (IF TruthyStr(requestor)
        THEN <<FMT_LAUNCH_REQUESTOR \o Sanitize(requestor[1]) \o DOT \o subkey>>
        ELSE <<>>)
    \o (IF TruthyStr(node_az)
        THEN <<FMT_LAUNCH_PROVIDER \o provider_name \o DOT \o node_az[1] \o DOT \o subkey>>
        ELSE <<>>)

\* the list "keys" before the emission loop
LaunchKeys(subkey, image_name, provider_name, node_az, requestor) ==
    <<FMT_LAUNCH_PROVIDER \o provider_name \o DOT \o subkey,
      FMT_LAUNCH_IMAGE \o image_name \o DOT \o subkey,
      FMT_LAUNCH \o subkey>>
    \o (IF TruthyStr(node_az)
        THEN <<FMT_LAUNCH_PROVIDER \o provider_name \o DOT \o node_az[1] \o DOT \o subkey>>
        ELSE <<>>)
    \o (IF TruthyStr(requestor)
        THEN <<FMT_LAUNCH_REQUESTOR \o Sanitize(requestor[1]) \o DOT \o subkey>>
        ELSE <<>>)

Timing(key, dt) == [m |-> "timing", key |-> key, value |-> dt]

Incr(key) == [m |-> "incr", key |-> key, value |-> 1]

Gauge(key, value) == [m |-> "gauge", key |-> key, value |-> value]

RECURSIVE EmitLaunchTimingOnly(_, _)
EmitLaunchTimingOnly(keys, dt) ==
    IF keys = <<>> THEN <<>>
    ELSE <<Timing(Head(keys), dt)>> \o EmitLaunchTimingOnly(Tail(keys), dt)

RECURSIVE EmitLaunch(_, _)
\* "for key in keys: timing(key, dt); incr(key)"
EmitLaunch(keys, dt) ==
    IF keys = <<>> THEN <<>>
    ELSE <<Timing(Head(keys), dt), Incr(Head(keys))>> \o EmitLaunch(Tail(keys), dt)

\* the sink calls one recordLaunchStats call makes, in order
recordLaunchStats(sink, subkey, dt, image_name, provider_name, node_az, requestor) ==
    IF NoSink(sink) THEN <<>>
    ELSE EmitLaunch(LaunchKeys(subkey, image_name, provider_name, node_az, requestor), dt)

(***************************************************************************)
(* The dict "states" of updateNodeStats.                                   *)
(***************************************************************************)
DictHas(d, k) == \E i \in 1..Len(d) : d[i].k = k

DictGet(d, k) == d[CHOOSE i \in 1..Len(d) : d[i].k = k].v

\* d[k] = v
DictSet(d, k, v) ==
    IF DictHas(d, k)
    THEN [i \in 1..Len(d) |-> IF d[i].k = k THEN [k |-> k, v |-> v] ELSE d[i]]
    ELSE Append(d, [k |-> k, v |-> v])

\* zk.Node.VALID_STATES, in the order the seeding loop visits it
S_ready == <<"r","e","a","d","y">>

S_building == <<"b","u","i","l","d","i","n","g">>

S_deleting == <<"d","e","l","e","t","i","n","g">>

VALID_STATES == <<S_ready, S_building, S_deleting>>

NodesKey(state) == FMT_NODES \o state

LabelKey(type, state) == FMT_LABEL \o type \o FMT_DOT_NODES \o state

ProviderKey(name, state) == FMT_PROVIDER \o name \o FMT_DOT_NODES \o state

MaxServersKey(name) == FMT_PROVIDER \o name \o FMT_DOT_MAX_SERVERS

NewStatesKept(old) == old

\* "states = {}"
NewStates(old) == <<>>

RECURSIVE SeedStatesGlobalOnly(_, _, _)
SeedStatesGlobalOnly(d, provider_name, i) ==
    IF i > Len(VALID_STATES) THEN d
    ELSE SeedStatesGlobalOnly(DictSet(d, NodesKey(VALID_STATES[i]), 0), provider_name, i + 1)

RECURSIVE SeedStates(_, _, _)
\* "Initialize things we know about to zero", from the i-th valid state on
SeedStates(d, provider_name, i) ==
    IF i > Len(VALID_STATES) THEN d
    ELSE SeedStates(DictSet(DictSet(d, NodesKey(VALID_STATES[i]), 0),
                            ProviderKey(provider_name, VALID_STATES[i]), 0),
                    provider_name, i + 1)

\* "if key in states: states[key] += 1 else: states[key] = 1"
InsertOrIncrement(d, k) ==
    IF DictHas(d, k) THEN DictSet(d, k, DictGet(d, k) + 1) ELSE DictSet(d, k, 1)

CountNodeGlobalTwice(d, node) ==
    InsertOrIncrement(
        InsertOrIncrement(DictSet(d, NodesKey(node.state), DictGet(d, NodesKey(node.state)) + 2),
                          LabelKey(node.type, node.state)),
        ProviderKey(node.provider, node.state))

\* the body of the scan loop for a node whose global key exists
CountNode(d, node) ==
    InsertOrIncrement(
        InsertOrIncrement(DictSet(d, NodesKey(node.state), DictGet(d, NodesKey(node.state)) + 1),
                          LabelKey(node.type, node.state)),
        ProviderKey(node.provider, node.state))

RECURSIVE ScanKnownLabelsOnly(_, _, _)
ScanKnownLabelsOnly(d, records, i) ==
    IF i > Len(records) THEN [states |-> d, pos |-> Len(records), raised |-> "none"]
    ELSE IF ~DictHas(d, NodesKey(records[i].state))
            \/ ~DictHas(d, LabelKey(records[i].type, records[i].state))
         THEN [states |-> d, pos |-> i, raised |-> "KeyError"]
         ELSE ScanKnownLabelsOnly(CountNode(d, records[i]), records, i + 1)

RECURSIVE Scan(_, _, _)
\* "for node in zk_conn.nodeIterator()", from the i-th record on.
\* "states[key] += 1" on a missing global key raises KeyError: the record
\* has been taken from the iterator and the call ends there.
Scan(d, records, i) ==
    IF i > Len(records) THEN [states |-> d, pos |-> Len(records), raised |-> "none"]
    ELSE IF ~DictHas(d, NodesKey(records[i].state))
         THEN [states |-> d, pos |-> i, raised |-> "KeyError"]
         ELSE Scan(CountNode(d, records[i]), records, i + 1)

\* "for key, count in states.items(): gauge(key, count)"
EmitGauges(d) == [i \in 1..Len(d) |-> Gauge(d[i].k, d[i].v)]

RECURSIVE MaxServersUnsetIsOne(_)
MaxServersUnsetIsOne(pools) ==
    IF pools = <<>> THEN 0
    ELSE (IF TruthyInt(Head(pools).max_servers) THEN Head(pools).max_servers[1] ELSE 1)
         + MaxServersUnsetIsOne(Tail(pools))

RECURSIVE MaxServers(_)
\* "sum([p.max_servers for p in provider.pools.values() if p.max_servers])"
MaxServers(pools) ==
    IF pools = <<>> THEN 0
    ELSE (IF TruthyInt(Head(pools).max_servers) THEN Head(pools).max_servers[1] ELSE 0)
         + MaxServers(Tail(pools))

\* the outcome of one updateNodeStats call: the sink calls in order, the
\* dict it built, the use it made of the node iterator, the exception
updateNodeStats(sink, old, records, config) ==
    IF NoSink(sink)
    THEN [calls |-> <<>>, states |-> old, iterOpened |-> 0, iterPos |-> 0, raised |-> "none"]
    ELSE LET scan == Scan(SeedStates(NewStates(old), config.name, 1), records, 1)
         IN  IF scan.raised # "none"
             THEN [calls |-> <<>>, states |-> scan.states, iterOpened |-> 1,
                   iterPos |-> scan.pos, raised |-> scan.raised]
             ELSE [calls |-> EmitGauges(scan.states)
                             \o <<Gauge(MaxServersKey(config.name), MaxServers(config.pools))>>,
                   states |-> scan.states, iterOpened |-> 1,
                   iterPos |-> scan.pos, raised |-> "none"]

(***************************************************************************)
(* Inputs.                                                                 *)
(***************************************************************************)
SeqsUpTo(S, n) == UNION {[1..k -> S] : k \in 0..n}

H_host == <<"h">>

P_port == <<"8","1","2","5">>

EnvSet == [host : {None, Some(<<>>), Some(H_host)}, port : {None, Some(<<>>), Some(P_port)}]

EnvUnset == [host |-> None, port |-> None]

EnvHost == [host |-> Some(H_host), port |-> None]

N_p1 == <<"p","1">>

N_p2 == <<"p","2">>

L_a == <<"a">>

L_b == <<"b">>

S_unknown == <<"g","o","n","e">>

K_error == <<"e","r","r","o","r">>

I_img1 == <<"i","m","g","1">>

A_az1 == <<"a","z","1">>

ReqAlphabet == {"u", ".", ":"}

LaunchInputs ==
    [subkey : {S_ready, K_error}, dt : {1200}, image_name : {I_img1},
     provider_name : {N_p1}, node_az : {None, Some(<<>>), Some(A_az1)},
     requestor : {None} \cup {Some(r) : r \in SeqsUpTo(ReqAlphabet, MaxReqLen)}]

DefaultLaunch ==
    [subkey |-> S_ready, dt |-> 1200, image_name |-> I_img1, provider_name |-> N_p1,
     node_az |-> None, requestor |-> None]

Limits == {None, Some(0), Some(5)}

ProviderConfigs == [name : {N_p1, N_p2}, pools : SeqsUpTo([max_servers : Limits], MaxPools)]

DefaultProvider == [name |-> N_p2, pools |-> <<>>]

\* a provider with one pool of 5 servers and one pool without a limit
ExampleProvider ==
    [name |-> N_p1, pools |-> <<[max_servers |-> Some(5)], [max_servers |-> None]>>]

ValidStateSet == {VALID_STATES[i] : i \in 1..Len(VALID_STATES)}

\* node records as the state store holds them: the state is a valid one
NodeRecords == [state : ValidStateSet, type : {L_a, L_b}, provider : {N_p1, N_p2}]

\* node records whose state may be one the reporter does not know
AnyNodeRecords ==
    [state : ValidStateSet \cup {S_unknown}, type : {L_a, L_b}, provider : {N_p1, N_p2}]

ExampleNodes ==
    <<[state |-> S_ready, type |-> L_a, provider |-> N_p1],
      [state |-> S_building, type |-> L_a, provider |-> N_p1]>>

(***************************************************************************)
(* The state machine.  The inputs of a behaviour are drawn by Init: the    *)
(* environment, the launch event the caller reports, the node records of   *)
(* the state store and the provider configuration.  One of the three       *)
(* (launch event, node records, pools) ranges over its whole set while the *)
(* others are taken from a few fixed values.                               *)
(***************************************************************************)
InitReporter ==
    /\ _statsd = get_client(env)
    /\ op = "init"
    /\ calls = <<>>
    /\ states = <<>>
    /\ iterOpened = 0
    /\ iterPos = 0
    /\ raised = "none"

InitWith(records) ==
    /\ \/ /\ env \in EnvSet
          /\ launch \in LaunchInputs
          /\ nodes = <<>>
          /\ provider = DefaultProvider
       \/ /\ env \in {EnvUnset, EnvHost}
          /\ launch = DefaultLaunch
          /\ nodes \in SeqsUpTo(records, MaxNodes)
          /\ provider \in {DefaultProvider, ExampleProvider}
       \/ /\ env \in {EnvUnset, EnvHost}
          /\ launch = DefaultLaunch
          /\ nodes \in {<<>>, ExampleNodes}
          /\ provider \in ProviderConfigs
    /\ InitReporter

\* StatsReporter.__init__: the sink handle is acquired from the environment
Init == InitWith(NodeRecords)

InitAny == InitWith(AnyNodeRecords)

RecordLaunchStats ==
    /\ op' = "recordLaunchStats"
    /\ calls' = recordLaunchStats(_statsd, launch.subkey, launch.dt, launch.image_name,
                                  launch.provider_name, launch.node_az, launch.requestor)
    /\ raised' = "none"
    /\ UNCHANGED <<env, launch, nodes, provider, _statsd, states, iterOpened, iterPos>>

\* iterOpened is the number of nodeIterator() calls the latest updateNodeStats
\* call made and iterPos the number of records it took from that iterator.
UpdateNodeStats ==
    LET r == updateNodeStats(_statsd, states, nodes, provider)
    IN  /\ op' = "updateNodeStats"
        /\ calls' = r.calls
        /\ states' = r.states
        /\ iterOpened' = r.iterOpened
        /\ iterPos' = r.iterPos
        /\ raised' = r.raised
        /\ UNCHANGED <<env, launch, nodes, provider, _statsd>>

Next == RecordLaunchStats \/ UpdateNodeStats

Spec == Init /\ [][Next]_vars

SpecAny == InitAny /\ [][Next]_vars

(***************************************************************************)
(* Vocabulary of the properties.                                           *)
(***************************************************************************)
W_nodepool == <<"n","o","d","e","p","o","o","l">>

W_pool == <<"p","o","o","l">>

W_launch == <<"l","a","u","n","c","h">>

W_provider == <<"p","r","o","v","i","d","e","r">>

W_image == <<"i","m","a","g","e">>

W_requestor == <<"r","e","q","u","e","s","t","o","r">>

W_nodes == <<"n","o","d","e","s">>

W_label == <<"l","a","b","e","l">>

W_max_servers == <<"m","a","x","_","s","e","r","v","e","r","s">>

RECURSIVE Dotted(_)
\* the segments joined by '.'
Dotted(segs) ==
    IF Len(segs) = 1 THEN segs[1]
    ELSE segs[1] \o <<".">> \o Dotted(Tail(segs))

StartsWith(s, prefix) == Len(s) >= Len(prefix) /\ SubSeq(s, 1, Len(prefix)) = prefix

EndsWith(s, suffix) ==
    Len(s) >= Len(suffix) /\ SubSeq(s, Len(s) - Len(suffix) + 1, Len(s)) = suffix

HasSink == _statsd # None

Launched == op = "recordLaunchStats"

Updated == op = "updateNodeStats"

NonEmpty(o) == o # <<>> /\ o[1] # <<>>

CallsWith(m, key) == {i \in 1..Len(calls) : calls[i].m = m /\ calls[i].key = key}

NodesWhere(P(_)) == Cardinality({i \in 1..Len(nodes) : P(nodes[i])})

RECURSIVE SumValues(_, _)
\* the sum of the values of the calls from the i-th on whose key has the prefix
SumValues(prefix, i) ==
    IF i > Len(calls) THEN 0
    ELSE (IF StartsWith(calls[i].key, prefix) THEN calls[i].value ELSE 0)
         + SumValues(prefix, i + 1)

GlobalName(root, s) == Dotted(<<root, W_nodes, s>>)

LabelName(root, l, s) == Dotted(<<root, W_label, l, W_nodes, s>>)

ProviderName(root, p, s) == Dotted(<<root, W_provider, p, W_nodes, s>>)

MaxServersName(root, p) == Dotted(<<root, W_provider, p, W_max_servers>>)

(***************************************************************************)
(* Properties.                                                             *)
(***************************************************************************)

\* C1: a reporter without a sink makes no sink call in recordLaunchStats or
\* updateNodeStats, and updateNodeStats neither asks for the node iterator
\* nor takes a record from it.
C1_NoSinkNoOp == ~HasSink => calls = <<>> /\ iterOpened = 0 /\ iterPos = 0

C1_Witness == ~HasSink /\ Updated /\ Len(nodes) > 0

\* C2: every updateNodeStats call with a sink emits, for every valid state, a
\* gauge for the global key and one for the configured provider's key; the
\* value is the number of matching records, 0 when there is none.
C2_SeededZero ==
    (Updated /\ HasSink) =>
        \A s \in ValidStateSet :
            /\ \E i \in CallsWith("gauge", GlobalName(W_nodepool, s)) :
                   calls[i].value = NodesWhere(LAMBDA n : n.state = s)
            /\ \E i \in CallsWith("gauge", ProviderName(W_nodepool, provider.name, s)) :
                   calls[i].value =
                       NodesWhere(LAMBDA n : n.state = s /\ n.provider = provider.name)

C2_Witness ==
    /\ Updated /\ HasSink /\ nodes = <<>>
    /\ \A s \in ValidStateSet :
           \E i \in CallsWith("gauge", GlobalName(W_nodepool, s)) : calls[i].value = 0

\* C3: the values of the global per-state gauges of an updateNodeStats call
\* add up to the number of records the node iterator yielded.
C3_GlobalSum ==
    (Updated /\ HasSink) =>
        /\ SumValues(Dotted(<<W_nodepool, W_nodes>>) \o <<".">>, 1) = Len(nodes)
        /\ iterPos = Len(nodes)

C3_Witness ==
    /\ Updated /\ HasSink /\ Len(nodes) >= 2
    /\ nodes[1].state # nodes[2].state

RECURSIVE PoolLimitSum(_)
\* the limits of the pools from the i-th on, a pool without a limit counting 0
PoolLimitSum(i) ==
    IF i > Len(provider.pools) THEN 0
    ELSE (IF provider.pools[i].max_servers = <<>> THEN 0
          ELSE provider.pools[i].max_servers[1])
         + PoolLimitSum(i + 1)

\* C4: an updateNodeStats call with a sink emits exactly one max_servers
\* gauge; its key carries the configured provider's name and its value is
\* the sum of the pools' limits, a pool without a limit (unset or 0)
\* counting 0.
C4_MaxServers ==
    (Updated /\ HasSink) =>
        LET ms == {i \in 1..Len(calls) : EndsWith(calls[i].key, <<".">> \o W_max_servers)}
        IN  /\ Cardinality(ms) = 1
            /\ \A i \in ms :
                   /\ calls[i].m = "gauge"
                   /\ calls[i].key = MaxServersName(W_nodepool, provider.name)
                   /\ calls[i].value = PoolLimitSum(1)

C4_Witness ==
    /\ Updated /\ HasSink /\ Len(nodes) > 0
    /\ \E i \in 1..Len(provider.pools) : provider.pools[i].max_servers = <<>>
    /\ \E i \in 1..Len(provider.pools) : provider.pools[i].max_servers = <<5>>
    /\ \E i \in 1..Len(calls) : EndsWith(calls[i].key, W_max_servers) /\ calls[i].value = 5

LaunchKeyCount ==
    3 + (IF NonEmpty(launch.node_az) THEN 1 ELSE 0)
      + (IF NonEmpty(launch.requestor) THEN 1 ELSE 0)

\* C5: recordLaunchStats with a sink uses 3 keys, one more with a non-empty
\* availability zone and one more with a non-empty requestor; every key gets
\* exactly one timing call with the duration and exactly one increment, and
\* there is no other sink call.
C5_LaunchFanOut ==
    (Launched /\ HasSink) =>
        LET keyset == {calls[i].key : i \in 1..Len(calls)}
        IN  /\ Cardinality(keyset) = LaunchKeyCount
            /\ Len(calls) = 2 * LaunchKeyCount
            /\ \A i \in 1..Len(calls) : calls[i].m \in {"timing", "incr"}
            /\ \A k \in keyset :
                   /\ Cardinality(CallsWith("timing", k)) = 1
                   /\ Cardinality(CallsWith("incr", k)) = 1
                   /\ \A i \in CallsWith("timing", k) : calls[i].value = launch.dt

C5_Witness ==
    /\ Launched /\ HasSink
    /\ NonEmpty(launch.node_az) /\ NonEmpty(launch.requestor)
    /\ Len(calls) = 10

\* C6: in the requestor key of recordLaunchStats every '.' and ':' of the
\* requestor is rendered as '_' and every other character is kept, so the
\* segment has the requestor's length and holds neither character.
C6_RequestorSanitized ==
    (Launched /\ HasSink /\ NonEmpty(launch.requestor)) =>
        LET r == launch.requestor[1]
            prefix == Dotted(<<W_nodepool, W_launch, W_requestor>>) \o <<".">>
            suffix == <<".">> \o launch.subkey
            rk == {i \in 1..Len(calls) : StartsWith(calls[i].key, prefix)}
        IN  /\ rk # {}
            /\ \A i \in rk :
                   LET key == calls[i].key
                       seg == SubSeq(key, Len(prefix) + 1, Len(key) - Len(suffix))
                   IN  /\ EndsWith(key, suffix)
                       /\ Len(seg) = Len(r)
                       /\ \A j \in 1..Len(seg) :
                              /\ seg[j] \notin {".", ":"}
                              /\ seg[j] = (IF r[j] \in {".", ":"} THEN "_" ELSE r[j])

C6_Witness ==
    /\ Launched /\ HasSink /\ NonEmpty(launch.requestor)
    /\ \E j \in 1..Len(launch.requestor[1]) : launch.requestor[1][j] = "."
    /\ \E j \in 1..Len(launch.requestor[1]) : launch.requestor[1][j] = ":"
    /\ Len(calls) > 6

AllStatesValid == \A i \in 1..Len(nodes) : nodes[i].state \in ValidStateSet

\* C7 as stated: updateNodeStats with a sink completes without raising
\* for every sequence of node records, also for a record whose state is not
\* one of the seeded states.
C7_NeverRaises ==
    (Updated /\ HasSink) => raised = "none" /\ iterPos = Len(nodes) /\ calls # <<>>

\* C7, amended: updateNodeStats with a sink completes without raising for
\* every sequence of node records whose states are valid states, whatever
\* their labels and providers: a label or provider key that was not seeded
\* is created on first sight and reported.
C7_ValidStatesNeverRaise ==
    (Updated /\ HasSink /\ AllStatesValid) =>
        /\ raised = "none"
        /\ iterPos = Len(nodes)
        /\ \A i \in 1..Len(nodes) :
               /\ CallsWith("gauge", LabelName(W_nodepool, nodes[i].type, nodes[i].state)) # {}
               /\ CallsWith("gauge", ProviderName(W_nodepool, nodes[i].provider,
                                                  nodes[i].state)) # {}

C7_Witness ==
    /\ Updated /\ HasSink /\ raised = "none"
    /\ \E i \in 1..Len(nodes) : nodes[i].provider # provider.name
    /\ calls # <<>>

ExpectedKeys ==
    {GlobalName(W_nodepool, s) : s \in ValidStateSet}
    \cup {ProviderName(W_nodepool, provider.name, s) : s \in ValidStateSet}
    \cup {LabelName(W_nodepool, nodes[i].type, nodes[i].state) : i \in 1..Len(nodes)}
    \cup {ProviderName(W_nodepool, nodes[i].provider, nodes[i].state) : i \in 1..Len(nodes)}

RecordsCounted(k) ==
    NodesWhere(LAMBDA n : k \in {GlobalName(W_nodepool, n.state),
                                 LabelName(W_nodepool, n.type, n.state),
                                 ProviderName(W_nodepool, n.provider, n.state)})

\* C8: whatever calls came before, an updateNodeStats call with a sink takes
\* the node iterator once and reads it to its end, makes gauge calls only,
\* and emits exactly one gauge per accumulated key (seeded or discovered),
\* whose value is the number of this call's records matching the key.
C8_FreshSnapshot ==
    (Updated /\ HasSink) =>
        /\ iterOpened = 1
        /\ iterPos = Len(nodes)
        /\ \A i \in 1..Len(calls) : calls[i].m = "gauge"
        /\ Len(calls) = Cardinality(ExpectedKeys) + 1
        /\ \A k \in ExpectedKeys :
               /\ Cardinality(CallsWith("gauge", k)) = 1
               /\ \A i \in CallsWith("gauge", k) : calls[i].value = RecordsCounted(k)

C8_Witness ==
    /\ Updated /\ HasSink /\ Len(nodes) = 2
    /\ nodes[1].type = nodes[2].type /\ nodes[1].state = nodes[2].state
    /\ nodes[1].provider # nodes[2].provider
    /\ nodes[1].provider # provider.name /\ nodes[2].provider = provider.name
    /\ \E i \in CallsWith("gauge", LabelName(W_nodepool, nodes[1].type, nodes[1].state)) :
           calls[i].value = 2

Given(o) == IF o = <<>> \/ o = << <<>> >> THEN <<>> ELSE o

Rendered(r) == [j \in 1..Len(r) |-> IF r[j] \in {".", ":"} THEN "_" ELSE r[j]]

LaunchNames(root) ==
    <<Dotted(<<root, W_launch, W_provider, launch.provider_name, launch.subkey>>),
      Dotted(<<root, W_launch, W_image, launch.image_name, launch.subkey>>),
      Dotted(<<root, W_launch, launch.subkey>>)>>
    \o (IF NonEmpty(launch.node_az)
        THEN <<Dotted(<<root, W_launch, W_provider, launch.provider_name,
                        launch.node_az[1], launch.subkey>>)>>
        ELSE <<>>)
    \o (IF NonEmpty(launch.requestor)
        THEN <<Dotted(<<root, W_launch, W_requestor, Rendered(launch.requestor[1]),
                        launch.subkey>>)>>
        ELSE <<>>)

UpdateNames(root) ==
    LET sts == ValidStateSet \cup {nodes[i].state : i \in 1..Len(nodes)}
        provs == {provider.name} \cup {nodes[i].provider : i \in 1..Len(nodes)}
        labels == {nodes[i].type : i \in 1..Len(nodes)}
    IN  {GlobalName(root, s) : s \in sts}
        \cup {LabelName(root, l[1], l[2]) : l \in labels \X sts}
        \cup {ProviderName(root, p[1], p[2]) : p \in provs \X sts}
        \cup {MaxServersName(root, provider.name)}

WireNames(root) ==
    /\ (Launched /\ HasSink) =>
           /\ Len(calls) = 2 * Len(LaunchNames(root))
           /\ \A i \in 1..Len(calls) : calls[i].key = LaunchNames(root)[(i + 1) \div 2]
    /\ (Updated /\ HasSink) =>
           /\ calls # <<>>
           /\ \A i \in 1..Len(calls) : calls[i].key \in UpdateNames(root)

\* C10 as stated: the names are those of the namespace rooted at "pool":
\* recordLaunchStats emits pool.launch.provider.<provider>.<subkey>,
\* pool.launch.image.<image>.<subkey>, pool.launch.<subkey>, then the
\* availability-zone name, then the requestor name, in this order;
\* updateNodeStats emits only pool.nodes.<state>,
\* pool.label.<label>.nodes.<state>, pool.provider.<provider>.nodes.<state>
\* and pool.provider.<provider>.max_servers.
C10_PoolRoot == WireNames(W_pool)

\* C10, amended: the same names in the same order, rooted at "nodepool".
C10_NodepoolRoot == WireNames(W_nodepool)

C10_Witness ==
    /\ Launched /\ HasSink
    /\ NonEmpty(launch.node_az) /\ NonEmpty(launch.requestor)
    /\ calls[7].key = Dotted(<<W_nodepool, W_launch, W_provider, launch.provider_name,
                               launch.node_az[1], launch.subkey>>)

====
